---- MODULE Spec2Model ----
(***************************************************************************)
(* Model of the shipment report core of LC_index:                          *)
(*   src/src/routes/sheets.py   process_data, sort_and_subtotal            *)
(*   src/data_structure.py      process_data, sort_and_subtotal (pandas)   *)
(* and of the accounts and sessions of src/src/routes/user.py.             *)
(*                                                                         *)
(* A Python value is a record [kind, n, s]: an int is Num(n), a str is     *)
(* Str(s) with s the tuple of its code points (Python compares and         *)
(* concatenates str by code point).  A row (a dict) is a function from the *)
(* set of keys it holds to values; a key outside DOMAIN row is absent.     *)
(***************************************************************************)
EXTENDS Integers, Sequences, FiniteSets, TLC

VARIABLES
    data_list,   \* the list of rows handed to process_data / sort_and_subtotal
    groups,      \* the dict `items` of the last sort_and_subtotal call
    given,       \* history: data_list as the caller supplied it
    passes,      \* history: number of completed process_data calls
    pc,          \* "input" | "processed" | "done" | "done_df" | "error"
    result,      \* dict returned by routes/sheets.py sort_and_subtotal
    result_df,   \* frame returned by data_structure.py sort_and_subtotal
    users,       \* the rows of the User table
    sessions,    \* the rows of the UserSession table
    now,         \* datetime.utcnow(), in hours
    next_token,  \* history: number of session tokens issued so far, plus one
    revoked,     \* history: the tokens a successful logout was made with
    response     \* the answer to the last request to a route of user.py

\* the report pipeline and the account service
sheet_vars == <<data_list, groups, given, passes, pc, result, result_df>>
user_vars == <<users, sessions, now, next_token, revoked, response>>

vars == <<data_list, groups, given, passes, pc, result, result_df,
          users, sessions, now, next_token, revoked, response>>

\* ---------------------------------------------------------------- bounds
MaxRows == 3
MaxVal == 2
MaxPasses == 2

\* ---------------------------------------------------------------- values
\* int n
Num(n) == [kind |-> "int", n |-> n, s |-> <<>>]
\* str with code points s
Str(s) == [kind |-> "str", n |-> 0, s |-> s]
\* float 1.m[2]m[3]...m[53] * 2^e (binary64): m is the 53-bit significand,
\* most significant bit first, m[1] = 1; 0.0 has the empty significand
Flt(e, m) == [kind |-> "float", n |-> e, s |-> m]

IsInt(v) == v.kind = "int"
IsFloat(v) == v.kind = "float"
IsStr(v) == v.kind = "str"
\* isinstance(v, (int, float))
IsNum(v) == IsInt(v) \/ IsFloat(v)

\* str literals of the source, as code points
EmptyStr == <<>>
Unknown == <<85, 110, 107, 110, 111, 119, 110>>
SubtotalSuffix == <<32, 83, 117, 98, 116, 111, 116, 97, 108>>
GrandTotalLabel == <<71, 114, 97, 110, 100, 32, 84, 111, 116, 97, 108>>
\* str values used as inputs: "A", "x"
StrA == <<65>>
StrX == <<120>>

\* ------------------------------------------------------- float arithmetic
Precision == 53

Zeros(k) == [i \in 1..k |-> 0]
Front(s) == SubSeq(s, 1, Len(s) - 1)

\* the bits i..1 of A + B added in front of acc, c the carry into bit i
RECURSIVE BinAddFrom(_, _, _, _, _)
BinAddFrom(A, B, i, c, acc) ==
    IF i = 0 THEN <<c>> \o acc
    ELSE IF A[i] + B[i] + c >= 2
         THEN BinAddFrom(A, B, i - 1, 1, <<A[i] + B[i] + c - 2>> \o acc)
         ELSE BinAddFrom(A, B, i - 1, 0, <<A[i] + B[i] + c>> \o acc)

\* A + B + c for two bit strings of one length; the sum is one bit longer
BinAdd(A, B, c) == BinAddFrom(A, B, Len(A), c, <<>>)

\* the bits of n > 0, most significant first
RECURSIVE BitsOf(_)
BitsOf(n) == IF n = 0 THEN <<>> ELSE BitsOf(n \div 2) \o <<n % 2>>

\* float(n) for an int n >= 0 that a double holds exactly
IntToFloat(n) ==
    IF n = 0 THEN Flt(0, <<>>)
    ELSE LET b == BitsOf(n)
         IN  Flt(Len(b) - 1, b \o Zeros(Precision - Len(b)))

\* round the bit string b (b[1] = 1, weight 2^e) to 53 bits, to nearest,
\* ties to even
RoundToDouble(e, b) ==
    IF Len(b) <= Precision THEN Flt(e, b \o Zeros(Precision - Len(b)))
    ELSE LET keep == SubSeq(b, 1, Precision)
             guard == b[Precision + 1]
             sticky == \E i \in (Precision + 2)..Len(b) : b[i] = 1
             up == guard = 1 /\ (sticky \/ keep[Precision] = 1)
             inc == BinAdd(keep, Zeros(Precision), 1)
         IN  IF ~up THEN Flt(e, keep)
             ELSE IF inc[1] = 1 THEN Flt(e + 1, SubSeq(inc, 1, Precision))
             ELSE Flt(e, Tail(inc))

\* x + y for two doubles x, y >= 0 with exponent of x >= exponent of y
FloatAddOrdered(x, y) ==
    LET d == x.n - y.n
        sum == BinAdd(x.s \o Zeros(d), Zeros(d) \o y.s, 0)
    IN  IF sum[1] = 1 THEN RoundToDouble(x.n + 1, sum)
        ELSE RoundToDouble(x.n, Tail(sum))

\* x + y for two doubles x, y >= 0
FloatAdd(x, y) ==
    IF x.s = <<>> THEN y
    ELSE IF y.s = <<>> THEN x
    ELSE IF x.n >= y.n THEN FloatAddOrdered(x, y)
    ELSE FloatAddOrdered(y, x)

ToFloat(v) == IF IsInt(v) THEN IntToFloat(v.n) ELSE v

\* a + b for two numbers: int + int is exact, anything else is the double
\* sum of the operands converted to float
Add(a, b) ==
    IF IsInt(a) /\ IsInt(b) THEN Num(a.n + b.n)
    ELSE FloatAdd(ToFloat(a), ToFloat(b))

\* the significand 1.h1h2...h13 of float.hex(), as 53 bits
RECURSIVE HexBits(_)
HexBits(h) ==
    IF h = <<>> THEN <<>>
    ELSE <<(h[1] \div 8) % 2, (h[1] \div 4) % 2, (h[1] \div 2) % 2, h[1] % 2>>
         \o HexBits(Tail(h))

\* two weights of the sample data:
\* 0.2 = 0x1.999999999999ap-3 and 0.5 = 0x1.0000000000000p-1
Float02 == Flt(0 - 3, <<1>> \o HexBits(<<9, 9, 9, 9, 9, 9, 9, 9, 9, 9, 9, 9, 10>>))
Float05 == Flt(0 - 1, <<1>> \o Zeros(Precision - 1))

\* s * n for a str s and an int n: n copies of s, "" when n <= 0
RECURSIVE Repeat(_, _)
Repeat(s, n) == IF n <= 0 THEN <<>> ELSE s \o Repeat(s, n - 1)

\* Python's a * b is defined for int*int, str*int and int*str; str*str
\* raises TypeError.  A float never reaches a product in this model: the
\* rows that carry one hold no CTNS.
MulRaises(a, b) == IsStr(a) /\ IsStr(b)

Mul(a, b) ==
    IF IsInt(a) /\ IsInt(b) THEN Num(a.n * b.n)
    ELSE IF IsStr(a) /\ IsInt(b) THEN Str(Repeat(a.s, b.n))
    ELSE IF IsInt(a) /\ IsStr(b) THEN Str(Repeat(b.s, a.n))
    ELSE Num(0)

\* ------------------------------------------------------------------ rows
Has(row, k) == k \in DOMAIN row

\* row[k] = v
SetField(row, k, v) ==
    [f \in (DOMAIN row) \cup {k} |-> IF f = k THEN v ELSE row[f]]

EmptyRow == [f \in {} |-> Num(0)]

\* --------------------------------------------------------- process_data
\* as Formulas, with the first product read from the destination key
FormulasTotalFromTotal ==
    << [dst |-> "TOTAL",    a |-> "TOTAL",   b |-> "CTNS"],
       [dst |-> "TOTAL NW", a |-> "CTNS",    b |-> "NW"],
       [dst |-> "TOTAL GW", a |-> "CTNS",    b |-> "GW"] >>

\* the three formulas, in the order the loop body applies them
Formulas ==
    << [dst |-> "TOTAL",    a |-> "QTY/CTN", b |-> "CTNS"],
       [dst |-> "TOTAL NW", a |-> "CTNS",    b |-> "NW"],
       [dst |-> "TOTAL GW", a |-> "CTNS",    b |-> "GW"] >>

\* as ApplyFormula, zero-filling the destination when a source is absent
ApplyFormulaDropsGuard(st, fm) ==
    IF st.raised THEN st
    ELSE IF Has(st.row, fm.a) /\ Has(st.row, fm.b)
         THEN IF MulRaises(st.row[fm.a], st.row[fm.b])
              THEN [row |-> st.row, raised |-> TRUE]
              ELSE [row |-> SetField(st.row, fm.dst,
                                     Mul(st.row[fm.a], st.row[fm.b])),
                    raised |-> FALSE]
         ELSE [row |-> SetField(st.row, fm.dst, Num(0)), raised |-> FALSE]

\* as ApplyFormula, keeping a destination value the caller supplied
ApplyFormulaKeepsExisting(st, fm) ==
    IF st.raised THEN st
    ELSE IF Has(st.row, fm.a) /\ Has(st.row, fm.b) /\ ~Has(st.row, fm.dst)
         THEN IF MulRaises(st.row[fm.a], st.row[fm.b])
              THEN [row |-> st.row, raised |-> TRUE]
              ELSE [row |-> SetField(st.row, fm.dst,
                                     Mul(st.row[fm.a], st.row[fm.b])),
                    raised |-> FALSE]
         ELSE st

\* as ApplyFormula, with the product stored back into the first source
ApplyFormulaWritesSource(st, fm) ==
    IF st.raised THEN st
    ELSE IF Has(st.row, fm.a) /\ Has(st.row, fm.b)
         THEN IF MulRaises(st.row[fm.a], st.row[fm.b])
              THEN [row |-> st.row, raised |-> TRUE]
              ELSE [row |-> SetField(st.row, fm.a,
                                     Mul(st.row[fm.a], st.row[fm.b])),
                    raised |-> FALSE]
         ELSE st

\* one `if a in row and b in row: row[dst] = row[a] * row[b]` statement on
\* the pair st = [row, raised]; nothing runs after an exception
ApplyFormula(st, fm) ==
    IF st.raised THEN st
    ELSE IF Has(st.row, fm.a) /\ Has(st.row, fm.b)
         THEN IF MulRaises(st.row[fm.a], st.row[fm.b])
              THEN [row |-> st.row, raised |-> TRUE]
              ELSE [row |-> SetField(st.row, fm.dst,
                                     Mul(st.row[fm.a], st.row[fm.b])),
                    raised |-> FALSE]
         ELSE st

\* the loop body for one row
DeriveRow(row) ==
    ApplyFormula(
        ApplyFormula(
            ApplyFormula([row |-> row, raised |-> FALSE], Formulas[1]),
            Formulas[2]),
        Formulas[3])

\* process_data(data_list): rows are updated in place, front to back; the
\* first exception ends the loop and leaves later rows as they were
RECURSIVE ProcessFrom(_, _)
ProcessFrom(list, i) ==
    IF i > Len(list) THEN [rows |-> list, raised |-> FALSE]
    ELSE LET d == DeriveRow(list[i])
             upd == [list EXCEPT ![i] = d.row]
         IN  IF d.raised THEN [rows |-> upd, raised |-> TRUE]
             ELSE ProcessFrom(upd, i + 1)

process_data(list) == ProcessFrom(list, 1)


\* ---------------------------------------------------- sorted(key=ITEM)
\* a < b for two str, by code point
RECURSIVE StrLess(_, _)
StrLess(a, b) ==
    IF b = <<>> THEN FALSE
    ELSE IF a = <<>> THEN TRUE
    ELSE IF a[1] < b[1] THEN TRUE
    ELSE IF a[1] > b[1] THEN FALSE
    ELSE StrLess(Tail(a), Tail(b))

\* x < y for two values of one type
KeyLess(x, y) ==
    IF IsInt(x) /\ IsInt(y) THEN x.n < y.n
    ELSE IF IsStr(x) /\ IsStr(y) THEN StrLess(x.s, y.s)
    ELSE FALSE

\* as SortKey, with the default the grouping loop uses
SortKeyUnknownDefault(row) ==
    IF Has(row, "ITEM") THEN row["ITEM"] ELSE Str(Unknown)

\* key=lambda x: x.get('ITEM', '')
SortKey(row) == IF Has(row, "ITEM") THEN row["ITEM"] ELSE Str(EmptyStr)

\* '<' between an int and a str raises TypeError; sorting compares every
\* element with some other one, so a list whose keys mix the two types
\* cannot be sorted
SortRaises(list) ==
    \E i, j \in 1..Len(list) : SortKey(list[i]).kind # SortKey(list[j]).kind

\* as Insert, placing x before the elements whose key equals its own
InsertBeforeEqual(s, x) ==
    LET k == Cardinality({i \in 1..Len(s) : KeyLess(SortKey(s[i]), SortKey(x))})
    IN  SubSeq(s, 1, k) \o <<x>> \o SubSeq(s, k + 1, Len(s))

\* as Insert, leaving out a row the sorted run already holds
InsertDropsEqual(s, x) ==
    LET k == Cardinality({i \in 1..Len(s) : ~KeyLess(SortKey(x), SortKey(s[i]))})
    IN  IF \E i \in 1..Len(s) : s[i] = x THEN s
        ELSE SubSeq(s, 1, k) \o <<x>> \o SubSeq(s, k + 1, Len(s))

\* one step of the insertion sort: x goes behind every element of the
\* sorted run s that is not greater than it
Insert(s, x) ==
    LET k == Cardinality({i \in 1..Len(s) : ~KeyLess(SortKey(x), SortKey(s[i]))})
    IN  SubSeq(s, 1, k) \o <<x>> \o SubSeq(s, k + 1, Len(s))

RECURSIVE SortedPrefix(_, _)
SortedPrefix(list, n) ==
    IF n = 0 THEN <<>> ELSE Insert(SortedPrefix(list, n - 1), list[n])

\* sorted(data_list, key=...): a new list, the argument is not changed
sorted(list) == SortedPrefix(list, Len(list))

\* ------------------------------------------------- sort_and_subtotal
numeric_fields == {"CTNS", "TOTAL", "TOTAL NW", "TOTAL GW", "QTY/CTN", "NW", "GW"}

\* row.get('ITEM', 'Unknown')
GroupKey(row) == IF Has(row, "ITEM") THEN row["ITEM"] ELSE Str(Unknown)

\* as AddToItems, with `items[item] = [row]` in place of the append
AddToItemsOverwrites(items, row) ==
    LET k == GroupKey(row)
        at == {j \in 1..Len(items) : items[j].key = k}
    IN  IF at = {} THEN Append(items, [key |-> k, rows |-> <<row>>])
        ELSE LET j == CHOOSE j \in at : TRUE
             IN  [items EXCEPT ![j].rows = <<row>>]

\* items[item].append(row), creating the entry at the end of the dict when
\* the key is new (a dict keeps its keys in insertion order)
AddToItems(items, row) ==
    LET k == GroupKey(row)
        at == {j \in 1..Len(items) : items[j].key = k}
    IN  IF at = {} THEN Append(items, [key |-> k, rows |-> <<row>>])
        ELSE LET j == CHOOSE j \in at : TRUE
             IN  [items EXCEPT ![j].rows = Append(@, row)]

RECURSIVE GroupPrefix(_, _)
GroupPrefix(rows, n) ==
    IF n = 0 THEN <<>> ELSE AddToItems(GroupPrefix(rows, n - 1), rows[n])

\* the `items` dict after the grouping loop, as a list of (key, rows)
GroupItems(rows) == GroupPrefix(rows, Len(rows))

\* as SumField, counting an absent or non-numeric value as 1
RECURSIVE SumFieldCountsMissing(_, _, _)
SumFieldCountsMissing(rows, f, n) ==
    IF n = 0 THEN Num(0)
    ELSE IF Has(rows[n], f) /\ IsNum(rows[n][f])
         THEN Add(SumFieldCountsMissing(rows, f, n - 1), rows[n][f])
         ELSE Add(SumFieldCountsMissing(rows, f, n - 1), Num(1))

\* sum(row.get(f, 0) for row in rows if isinstance(row.get(f), (int, float)))
\* over the first n rows: sum() starts from the int 0 and adds the values
\* that pass the filter, left to right (the accumulation of CPython up to
\* 3.11: exact on ints, one rounded double addition per float)
RECURSIVE SumField(_, _, _)
SumField(rows, f, n) ==
    IF n = 0 THEN Num(0)
    ELSE IF Has(rows[n], f) /\ IsNum(rows[n][f])
         THEN Add(SumField(rows, f, n - 1), rows[n][f])
         ELSE SumField(rows, f, n - 1)

\* as Totals, with every numeric field emitted
TotalsZeroFilled(rows) ==
    [f \in numeric_fields |-> SumField(rows, f, Len(rows))]

\* the dict built by `for field in numeric_fields: if any(field in row ...)`
Totals(rows) ==
    [f \in {g \in numeric_fields : \E i \in 1..Len(rows) : Has(rows[i], g)}
        |-> SumField(rows, f, Len(rows))]

sort_and_subtotal(list) ==
    LET data_sorted == sorted(list)
        items == GroupItems(data_sorted)
    IN  [data |-> data_sorted,
         subtotals |-> [j \in 1..Len(items) |->
                           [key |-> items[j].key, sub |-> Totals(items[j].rows)]],
         grand_total |-> Totals(data_sorted)]

\* ------------------------------------ data_structure.py (DataFrame variant)
\* the columns process_data and sort_and_subtotal index: ITEM a str and
\* the four inputs numbers, as DATA_HEADERS has them (whole numbers here)
FrameRow(row) ==
    /\ Has(row, "ITEM") /\ IsStr(row["ITEM"])
    /\ \A f \in {"QTY/CTN", "CTNS", "NW", "GW"} : Has(row, f) /\ IsInt(row[f])

\* pd.DataFrame(rows) of at least one row, every row with those columns
WellFormedFrame(list) ==
    Len(list) >= 1 /\ \A i \in 1..Len(list) : FrameRow(list[i])

\* df['TOTAL'] = df['QTY/CTN'] * df['CTNS'], and the two weight columns
df_process_data(df) ==
    [i \in 1..Len(df) |->
        SetField(
            SetField(
                SetField(df[i], "TOTAL", Num(df[i]["QTY/CTN"].n * df[i]["CTNS"].n)),
                "TOTAL NW", Num(df[i]["CTNS"].n * df[i]["NW"].n)),
            "TOTAL GW", Num(df[i]["CTNS"].n * df[i]["GW"].n))]

\* df[col].sum() over the rows of a frame whose column holds numbers
RECURSIVE ColumnSum(_, _, _)
ColumnSum(rows, f, n) ==
    IF n = 0 THEN 0 ELSE ColumnSum(rows, f, n - 1) + rows[n][f].n

\* df_sorted['ITEM'].unique(): the values in order of first appearance
RECURSIVE Unique(_, _)
Unique(rows, n) ==
    IF n = 0 THEN <<>>
    ELSE LET u == Unique(rows, n - 1)
         IN  IF \E j \in 1..Len(u) : u[j] = rows[n]["ITEM"] THEN u
             ELSE Append(u, rows[n]["ITEM"])

\* df_sorted[df_sorted['ITEM'] == item]
ItemData(rows, item) == SelectSeq(rows, LAMBDA r : r["ITEM"] = item)

\* one row of the groupby(...).agg(sum) frame, relabelled key + ' Subtotal'
SubtotalRow(rows, item) ==
    LET g == ItemData(rows, item)
    IN  [f \in {"ITEM", "CTNS", "TOTAL", "TOTAL NW", "TOTAL GW"} |->
            IF f = "ITEM" THEN Str(item.s \o SubtotalSuffix)
            ELSE Num(ColumnSum(g, f, Len(g)))]

GrandTotalRow(rows) ==
    [f \in {"ITEM", "CTNS", "TOTAL", "TOTAL NW", "TOTAL GW"} |->
        IF f = "ITEM" THEN Str(GrandTotalLabel)
        ELSE Num(ColumnSum(rows, f, Len(rows)))]

\* as Assemble, with the subtotal rows appended after all the data rows
RECURSIVE AssembleSubtotalsLast(_, _, _)
AssembleSubtotalsLast(rows, items, n) ==
    IF n = 0 THEN rows
    ELSE AssembleSubtotalsLast(rows, items, n - 1)
         \o <<SubtotalRow(rows, items[n])>>

\* the concat loop over the unique items: the item's rows, then its subtotal
RECURSIVE Assemble(_, _, _)
Assemble(rows, items, n) ==
    IF n = 0 THEN <<>>
    ELSE Assemble(rows, items, n - 1)
         \o ItemData(rows, items[n]) \o <<SubtotalRow(rows, items[n])>>

\* sort_values(by='ITEM') runs numpy's quicksort, which sorts a short array
\* by insertion; the frames of this model are all that short
df_sort_and_subtotal(df) ==
    LET df_sorted == sorted(df)
        items == Unique(df_sorted, Len(df_sorted))
    IN  Assemble(df_sorted, items, Len(items)) \o <<GrandTotalRow(df_sorted)>>

\* --------------------------------------------------------------- actions
NoResult == [data |-> <<>>, subtotals |-> <<>>, grand_total |-> EmptyRow]

\* a call of process_data on the current list
Process ==
    /\ pc \in {"input", "processed"}
    /\ passes < MaxPasses
    /\ LET r == process_data(data_list)
       IN  /\ data_list' = r.rows
           /\ pc' = IF r.raised THEN "error" ELSE "processed"
           /\ passes' = IF r.raised THEN passes ELSE passes + 1
    /\ UNCHANGED <<groups, given, result, result_df>>
    /\ UNCHANGED user_vars

\* a call of routes/sheets.py sort_and_subtotal on the current list
SortAndSubtotal ==
    /\ pc \in {"input", "processed"}
    /\ IF SortRaises(data_list)
       THEN pc' = "error" /\ UNCHANGED <<result, groups>>
       ELSE /\ pc' = "done"
            /\ result' = sort_and_subtotal(data_list)
            /\ groups' = GroupItems(sorted(data_list))
    /\ UNCHANGED <<data_list, given, passes, result_df>>
    /\ UNCHANGED user_vars

\* the offline script: DataFrame(rows), process_data, sort_and_subtotal
FrameReport ==
    /\ pc = "input"
    /\ WellFormedFrame(data_list)
    /\ result_df' = df_sort_and_subtotal(df_process_data(data_list))
    /\ pc' = "done_df"
    /\ UNCHANGED <<data_list, groups, given, passes, result>>
    /\ UNCHANGED user_vars

\* ------------------------------------------- inputs of the aggregator
ItemVals == {Str(EmptyStr), Str(StrA), Str(Unknown)}

Payloads ==
    { [f \in {"MODEL", "QTY/CTN", "CTNS", "NW", "GW"} |->
          IF f = "MODEL" THEN Str(StrX) ELSE IF f = "CTNS" THEN Num(2) ELSE Num(1)],
      [f \in {"CTNS"} |-> Num(1)],
      [f \in {"GW"} |-> Str(StrX)] }

\* a second complete row, rows with a float weight as the sample data has
\* them, and a row whose ITEM is a number
ExtraRows ==
    { [f \in {"ITEM", "QTY/CTN", "CTNS", "NW", "GW"} |->
          IF f = "ITEM" THEN Str(Unknown) ELSE IF f = "GW" THEN Num(3) ELSE Num(1)],
      [ITEM |-> Str(StrA), GW |-> Float02],
      [ITEM |-> Str(Unknown), GW |-> Float02],
      [ITEM |-> Str(Unknown), GW |-> Float05],
      [f \in {"ITEM", "CTNS"} |-> Num(1)] }

RowSet ==
    Payloads
    \cup { SetField(p, "ITEM", k) : p \in Payloads, k \in ItemVals }
    \cup ExtraRows

\* no request to a route of user.py has been made: the tables are empty
NoResponse == [route |-> "none", status |-> 0, reached |-> FALSE, token |-> 0]

NoAccounts ==
    /\ users = {}
    /\ sessions = {}
    /\ now = 0
    /\ next_token = 1
    /\ revoked = {}
    /\ response = NoResponse

\* the caller puts one more row on the list it will hand over
AddRow(r) ==
    /\ pc = "input"
    /\ passes = 0
    /\ Len(data_list) < MaxRows
    /\ data_list' = Append(data_list, r)
    /\ given' = data_list'
    /\ UNCHANGED <<groups, passes, pc, result, result_df>>
    /\ UNCHANGED user_vars

Init ==
    /\ data_list = <<>>
    /\ given = <<>>
    /\ passes = 0
    /\ pc = "input"
    /\ result = NoResult
    /\ result_df = <<>>
    /\ groups = <<>>
    /\ NoAccounts

Next ==
    \/ \E r \in RowSet : AddRow(r)
    \/ Process
    \/ SortAndSubtotal
    \/ FrameReport

Spec == Init /\ [][Next]_vars

\* ------------------------------------------------ inputs of the deriver
NumVals == {Num(n) : n \in 1..MaxVal}
DeriveVals == NumVals \cup {Str(StrX)}
DeriveFields == {"QTY/CTN", "CTNS", "NW", "GW", "TOTAL", "TOTAL NW", "TOTAL GW"}

DeriveRows ==
    UNION { [D -> DeriveVals] : D \in SUBSET DeriveFields }

InitDerive ==
    /\ data_list \in { <<r>> : r \in DeriveRows }
    /\ given = data_list
    /\ passes = 0
    /\ pc = "input"
    /\ result = NoResult
    /\ result_df = <<>>
    /\ groups = <<>>
    /\ NoAccounts

NextDerive == Process

SpecDerive == InitDerive /\ [][NextDerive]_vars

\* =================================================== routes/user.py
\* bounds of the account service
MaxUserId == 2
MaxTokens == 1
MaxTicks == 1

\* timedelta(hours=24)
SessionHours == 24
\* the clock is looked at again when a session lifetime has gone by
TickHours == SessionHours + 1

\* ------------------------------------------------ requests of the clients
Usernames == {"admin", "bob"}
Emails == {"admin@lcindex.com", "bob@lcindex.com"}
Passwords == {"admin123", "pw"}

\* A JSON body is a function from the keys it holds to their values.
\* the token of a request that carries none
NoToken == 0

\* an Authorization header, as the parts auth_header.split(' ') gives; the
\* empty tuple is a request without the header
Headers ==
    {<<>>, <<"Bearer">>, <<"Token", 1>>}
    \cup {<<"Bearer", t>> : t \in 1..MaxTokens}

\* ------------------------------------------------------------- queries
\* Query.first(): the row with the lowest primary key
first(rows) == CHOOSE u \in rows : \A v \in rows : u.id <= v.id

\* User.query.filter_by(username=name)
UsersWithName(us, name) == {u \in us : u.username = name}

\* User.query.filter_by(email=email)
UsersWithEmail(us, email) == {u \in us : u.email = email}

\* as EmailTakenByOther, with the test left out
EmailTakenByOtherUnchecked(us, email, uid) == FALSE

\* existing_user and existing_user.id != user.id
EmailTakenByOther(us, email, uid) ==
    /\ UsersWithEmail(us, email) # {}
    /\ first(UsersWithEmail(us, email)).id # uid

\* the primary key the table gives a new row
NewId(us) ==
    IF us = {} THEN 1
    ELSE (CHOOSE u \in us : \A v \in us : u.id >= v.id).id + 1

\* user.email = email, and the like, on the row with the key uid
SetUser(us, uid, f, v) ==
    {IF u.id = uid THEN [u EXCEPT ![f] = v] ELSE u : u \in us}

\* data.get(k) is truthy
Truthy(data, k) == Has(data, k) /\ data[k] # ""

\* ---------------------------------------------------------- decorators
\* user_session.is_expired(): the expiry time lies in the past
is_expired(session) == now > session.expires_at

Rejected(token) ==
    [ok |-> FALSE, status |-> 401, token |-> token, user_id |-> 0]

\* as require_auth, without the test of is_expired()
require_auth_ignores_expiry(hdr) ==
    IF Len(hdr) < 2 THEN Rejected(NoToken)
    ELSE LET found == {x \in sessions : x.session_token = hdr[2]}
         IN  IF found = {} THEN Rejected(hdr[2])
             ELSE [ok |-> TRUE, status |-> 200, token |-> hdr[2],
                   user_id |-> (CHOOSE x \in found : TRUE).user_id]

\* require_auth on a request with the header hdr: the outcome of the
\* wrapper before the handler is called.  A missing header and a header
\* without a second part (IndexError) are answered 401.
require_auth(hdr) ==
    IF Len(hdr) < 2 THEN Rejected(NoToken)
    ELSE LET found == {x \in sessions : x.session_token = hdr[2]}
         IN  IF found = {} THEN Rejected(hdr[2])
             ELSE LET user_session == CHOOSE x \in found : TRUE
                  IN  IF is_expired(user_session) THEN Rejected(hdr[2])
                      ELSE [ok |-> TRUE, status |-> 200, token |-> hdr[2],
                            user_id |-> user_session.user_id]

\* request.current_user = User.query.get(user_session.user_id)
current_user(auth) == CHOOSE u \in users : u.id = auth.user_id

user_levels(level) ==
    IF level = "admin" THEN 2 ELSE IF level = "developer" THEN 3 ELSE 1

\* require_level(level) lets the user through
require_level(level, user) == user_levels(user.user_level) >= user_levels(level)

Answer(route, status, reached, token) ==
    response' = [route |-> route, status |-> status,
                 reached |-> reached, token |-> token]

\* ------------------------------------------------------- public routes
RegisterBodies ==
    {[username |-> u, email |-> e, password |-> "pw"] :
        u \in Usernames, e \in Emails}
    \cup {[username |-> "bob", email |-> "bob@lcindex.com"],
          [username |-> "bob", email |-> "bob@lcindex.com",
           password |-> "pw", user_level |-> "admin"]}

LoginBodies ==
    {[username |-> u, password |-> w] : u \in Usernames, w \in Passwords}
    \cup {[username |-> "admin"]}

\* POST /register
Register(data) ==
    /\ IF \E f \in {"username", "email", "password"} : ~Truthy(data, f)
       THEN Answer("register", 400, FALSE, NoToken) /\ UNCHANGED users
       ELSE IF UsersWithName(users, data["username"]) # {}
       THEN Answer("register", 400, FALSE, NoToken) /\ UNCHANGED users
       ELSE IF UsersWithEmail(users, data["email"]) # {}
       THEN Answer("register", 400, FALSE, NoToken) /\ UNCHANGED users
       ELSE /\ NewId(users) <= MaxUserId
            /\ users' = users \cup
                  {[id |-> NewId(users),
                    username |-> data["username"],
                    email |-> data["email"],
                    user_level |-> IF Has(data, "user_level")
                                   THEN data["user_level"] ELSE "user",
                    active |-> TRUE,
                    password |-> data["password"]]}
            /\ Answer("register", 201, FALSE, NoToken)
    /\ UNCHANGED <<sessions, now, next_token, revoked>>
    /\ UNCHANGED sheet_vars

\* POST /login.  A session token is secrets.token_urlsafe(32): one that was
\* never issued before.  user.last_login is written here and read by no
\* handler; it is not part of the state.
Login(data) ==
    /\ IF ~Truthy(data, "username") \/ ~Truthy(data, "password")
       THEN Answer("login", 400, FALSE, NoToken)
            /\ UNCHANGED <<sessions, next_token>>
       ELSE LET found == UsersWithName(users, data["username"])
            IN  IF found = {} \/ first(found).password # data["password"]
                THEN Answer("login", 401, FALSE, NoToken)
                     /\ UNCHANGED <<sessions, next_token>>
                ELSE IF ~first(found).active
                THEN Answer("login", 401, FALSE, NoToken)
                     /\ UNCHANGED <<sessions, next_token>>
                ELSE /\ next_token <= MaxTokens
                     /\ sessions' = sessions \cup
                           {[user_id |-> first(found).id,
                             session_token |-> next_token,
                             expires_at |-> now + SessionHours]}
                     /\ next_token' = next_token + 1
                     /\ Answer("login", 200, FALSE, NoToken)
    /\ UNCHANGED <<users, now, revoked>>
    /\ UNCHANGED sheet_vars

\* POST /init-admin
InitAdmin ==
    /\ IF Cardinality(users) > 0
       THEN Answer("init_admin", 400, FALSE, NoToken) /\ UNCHANGED users
       ELSE /\ users' = {[id |-> NewId(users),
                          username |-> "admin",
                          email |-> "admin@lcindex.com",
                          user_level |-> "developer",
                          active |-> TRUE,
                          password |-> "admin123"]}
            /\ Answer("init_admin", 201, FALSE, NoToken)
    /\ UNCHANGED <<sessions, now, next_token, revoked>>
    /\ UNCHANGED sheet_vars

\* ----------------------------------------------------- protected routes
\* as DeleteSession, with the row left in the table
DeleteSessionKeepsRow(ss, token) == ss

\* db.session.delete(user_session) for the session found by the token
DeleteSession(ss, token) == {x \in ss : x.session_token # token}

\* POST /logout
Logout(hdr) ==
    /\ LET auth == require_auth(hdr) IN
          IF ~auth.ok
          THEN Answer("logout", auth.status, FALSE, auth.token)
               /\ UNCHANGED <<sessions, revoked>>
          ELSE /\ sessions' = DeleteSession(sessions, auth.token)
               /\ revoked' = revoked \cup {auth.token}
               /\ Answer("logout", 200, TRUE, auth.token)
    /\ UNCHANGED <<users, now, next_token>>
    /\ UNCHANGED sheet_vars

\* GET /profile
GetProfile(hdr) ==
    /\ LET auth == require_auth(hdr) IN
          Answer("get_profile", auth.status, auth.ok, auth.token)
    /\ UNCHANGED <<users, sessions, now, next_token, revoked>>
    /\ UNCHANGED sheet_vars

\* GET /check-auth
CheckAuth(hdr) ==
    /\ LET auth == require_auth(hdr) IN
          Answer("check_auth", auth.status, auth.ok, auth.token)
    /\ UNCHANGED <<users, sessions, now, next_token, revoked>>
    /\ UNCHANGED sheet_vars

\* GET /users
GetUsers(hdr) ==
    /\ LET auth == require_auth(hdr) IN
          IF ~auth.ok
          THEN Answer("get_users", auth.status, FALSE, auth.token)
          ELSE IF ~require_level("admin", current_user(auth))
          THEN Answer("get_users", 403, TRUE, auth.token)
          ELSE Answer("get_users", 200, TRUE, auth.token)
    /\ UNCHANGED <<users, sessions, now, next_token, revoked>>
    /\ UNCHANGED sheet_vars

ProfileBodies ==
    {[email |-> e] : e \in Emails} \cup {[password |-> "pw"]}

UserBodies ==
    {[user_level |-> "admin", email |-> e] : e \in Emails}
    \cup {[active |-> FALSE]}

\* the rows after `if k in data: user.k = data[k]` for the row uid
Assign(us, uid, data, k) ==
    IF Has(data, k) THEN SetUser(us, uid, k, data[k]) ELSE us

\* PUT /profile
UpdateProfile(hdr, data) ==
    /\ LET auth == require_auth(hdr) IN
          IF ~auth.ok
          THEN Answer("update_profile", auth.status, FALSE, auth.token)
               /\ UNCHANGED users
          ELSE LET user == current_user(auth)
               IN  IF Has(data, "email")
                      /\ EmailTakenByOther(users, data["email"], user.id)
                   THEN Answer("update_profile", 400, TRUE, auth.token)
                        /\ UNCHANGED users
                   ELSE /\ users' =
                              LET us == Assign(users, user.id, data, "email")
                              IN  IF Truthy(data, "password")
                                  THEN SetUser(us, user.id, "password",
                                               data["password"])
                                  ELSE us
                        /\ Answer("update_profile", 200, TRUE, auth.token)
    /\ UNCHANGED <<sessions, now, next_token, revoked>>
    /\ UNCHANGED sheet_vars

\* PUT /users/<user_id>.  get_or_404 raises inside the try block, so an
\* unknown id is answered 500.  The rows changed before the answer 400 are
\* never committed: the database session ends with the request.
UpdateUser(hdr, user_id, data) ==
    /\ LET auth == require_auth(hdr) IN
          IF ~auth.ok
          THEN Answer("update_user", auth.status, FALSE, auth.token)
               /\ UNCHANGED users
          ELSE IF ~require_level("admin", current_user(auth))
          THEN Answer("update_user", 403, TRUE, auth.token)
               /\ UNCHANGED users
          ELSE IF \A u \in users : u.id # user_id
          THEN Answer("update_user", 500, TRUE, auth.token)
               /\ UNCHANGED users
          ELSE IF Has(data, "email")
                  /\ EmailTakenByOther(users, data["email"], user_id)
          THEN Answer("update_user", 400, TRUE, auth.token)
               /\ UNCHANGED users
          ELSE /\ users' =
                     Assign(Assign(Assign(users, user_id, data, "user_level"),
                                   user_id, data, "active"),
                            user_id, data, "email")
               /\ Answer("update_user", 200, TRUE, auth.token)
    /\ UNCHANGED <<sessions, now, next_token, revoked>>
    /\ UNCHANGED sheet_vars

\* DELETE /users/<user_id>
DeleteUser(hdr, user_id) ==
    /\ LET auth == require_auth(hdr) IN
          IF ~auth.ok
          THEN Answer("delete_user", auth.status, FALSE, auth.token)
               /\ UNCHANGED <<users, sessions>>
          ELSE IF ~require_level("admin", current_user(auth))
          THEN Answer("delete_user", 403, TRUE, auth.token)
               /\ UNCHANGED <<users, sessions>>
          ELSE IF \A u \in users : u.id # user_id
          THEN Answer("delete_user", 500, TRUE, auth.token)
               /\ UNCHANGED <<users, sessions>>
          ELSE IF user_id = current_user(auth).id
          THEN Answer("delete_user", 400, TRUE, auth.token)
               /\ UNCHANGED <<users, sessions>>
          ELSE /\ sessions' = {x \in sessions : x.user_id # user_id}
               /\ users' = {u \in users : u.id # user_id}
               /\ Answer("delete_user", 200, TRUE, auth.token)
    /\ UNCHANGED <<now, next_token, revoked>>
    /\ UNCHANGED sheet_vars

\* time passes between two requests
Tick ==
    /\ now + TickHours <= MaxTicks * TickHours
    /\ now' = now + TickHours
    /\ UNCHANGED <<users, sessions, next_token, revoked, response>>
    /\ UNCHANGED sheet_vars

InitUsers == Init

NextUsers ==
    \/ \E data \in RegisterBodies : Register(data)
    \/ \E data \in LoginBodies : Login(data)
    \/ InitAdmin
    \/ \E hdr \in Headers : Logout(hdr)
    \/ \E hdr \in Headers : GetProfile(hdr)
    \/ \E hdr \in Headers : CheckAuth(hdr)
    \/ \E hdr \in Headers : GetUsers(hdr)
    \/ \E hdr \in Headers : \E data \in ProfileBodies : UpdateProfile(hdr, data)
    \/ \E hdr \in Headers : \E user_id \in 1..MaxUserId :
          \E data \in UserBodies : UpdateUser(hdr, user_id, data)
    \/ \E hdr \in Headers : \E user_id \in 1..MaxUserId : DeleteUser(hdr, user_id)
    \/ Tick

SpecUsers == InitUsers /\ [][NextUsers]_vars

\* ================================================================ claims
BothSources(row, fm) == Has(row, fm.a) /\ Has(row, fm.b)

\* the derived fields and their sources, as the claims name them
FormulaSet ==
    { [dst |-> "TOTAL",    a |-> "QTY/CTN", b |-> "CTNS"],
      [dst |-> "TOTAL NW", a |-> "CTNS",    b |-> "NW"],
      [dst |-> "TOTAL GW", a |-> "CTNS",    b |-> "GW"] }

\* the rows of a completed process_data call, paired with their inputs
Derived == pc = "processed" /\ Len(data_list) = Len(given)

\* C1 (as stated): a derived field is present in derive(r) if and only if
\* both of its source fields were present in r, whatever else r carries.
C1_PresentIffBothSources ==
    Derived =>
        \A i \in 1..Len(given) : \A fm \in FormulaSet :
            Has(data_list[i], fm.dst) <=> BothSources(given[i], fm)

\* C1 (amended): a derived field is present in derive(r) if and only if
\* both of its source fields were present in r or r already carried the
\* field; when a source is absent the field is left exactly as it was.
C1_PresentIffSourcesOrSupplied ==
    Derived =>
        \A i \in 1..Len(given) : \A fm \in FormulaSet :
            /\ Has(data_list[i], fm.dst)
                  <=> (BothSources(given[i], fm) \/ Has(given[i], fm.dst))
            /\ (~BothSources(given[i], fm) /\ Has(given[i], fm.dst))
                  => data_list[i][fm.dst] = given[i][fm.dst]

\* a derived row that kept a supplied TOTAL although CTNS was absent, and a
\* derived row without TOTAL because a source was absent
C1_Witness ==
    /\ Derived
    /\ Len(given) = 1
    /\ Has(given[1], "TOTAL") /\ Has(given[1], "QTY/CTN")
    /\ ~Has(given[1], "CTNS")
    /\ Has(data_list[1], "TOTAL")
    /\ ~Has(data_list[1], "TOTAL NW")

\* C2: when both source fields of a formula hold numbers, derive sets the
\* destination to their product, overwriting a value the caller supplied.
C2_ProductOverwrites ==
    Derived =>
        \A i \in 1..Len(given) : \A fm \in FormulaSet :
            (BothSources(given[i], fm)
                /\ IsInt(given[i][fm.a]) /\ IsInt(given[i][fm.b]))
            => /\ Has(data_list[i], fm.dst)
               /\ IsInt(data_list[i][fm.dst])
               /\ data_list[i][fm.dst].n = given[i][fm.a].n * given[i][fm.b].n

\* a supplied TOTAL that differs from the product has been replaced by it
C2_Witness ==
    /\ Derived
    /\ Len(given) = 1
    /\ Has(given[1], "QTY/CTN") /\ Has(given[1], "CTNS")
    /\ IsInt(given[1]["QTY/CTN"]) /\ IsInt(given[1]["CTNS"])
    /\ Has(given[1], "TOTAL")
    /\ given[1]["TOTAL"] # Num(given[1]["QTY/CTN"].n * given[1]["CTNS"].n)
    /\ data_list[1]["TOTAL"] = Num(given[1]["QTY/CTN"].n * given[1]["CTNS"].n)

\* C3: derive is idempotent: a second process_data call on an already
\* derived list leaves every row as it is (same keys, same values).
C3_Idempotent ==
    [][(passes >= 1 /\ passes' = passes + 1) => data_list' = data_list]_vars

\* derive has been applied twice to a row that carries derived fields
C3_Witness ==
    /\ passes = 2
    /\ pc = "processed"
    /\ Len(data_list) = 1
    /\ Has(data_list[1], "TOTAL") /\ Has(data_list[1], "TOTAL GW")
    /\ ~Has(data_list[1], "NW")

\* ------------------------------------------------------------ aggregator
Done == pc = "done"

\* the summed fields, as the claims name them
SummedFields == {"CTNS", "TOTAL", "TOTAL NW", "TOTAL GW", "QTY/CTN", "NW", "GW"}

\* two rows carry the same ITEM (or both carry none)
SameItem(r1, r2) ==
    /\ Has(r1, "ITEM") <=> Has(r2, "ITEM")
    /\ Has(r1, "ITEM") => r1["ITEM"] = r2["ITEM"]

\* the rows the grouping loop put under key k, in data order
RowsOfGroup(k) == SelectSeq(result.data, LAMBDA r : GroupKey(r) = k)

\* what a row adds to the sum of field f: its number, or 0
Contribution(row, f) ==
    IF Has(row, f) /\ IsNum(row[f]) THEN row[f] ELSE Num(0)

\* the contributions of the first n rows, added up in row order
RECURSIVE SumOfContributions(_, _, _)
SumOfContributions(rows, f, n) ==
    IF n = 0 THEN Num(0)
    ELSE Add(SumOfContributions(rows, f, n - 1), Contribution(rows[n], f))

KeyOrUnknown(row) ==
    IF ~Has(row, "ITEM") \/ row["ITEM"] = Str(EmptyStr)
    THEN Str(Unknown) ELSE row["ITEM"]

\* C5: a row whose ITEM is absent or the empty string is put in the group
\* "Unknown" and stands in the sorted data where the key "Unknown" belongs.
C5_MissingKeyIsUnknown ==
    Done =>
        /\ \A j \in 1..Len(result.subtotals) :
              result.subtotals[j].key # Str(EmptyStr)
        /\ (\E i \in 1..Len(result.data) :
                KeyOrUnknown(result.data[i]) = Str(Unknown))
              => \E j \in 1..Len(result.subtotals) :
                    result.subtotals[j].key = Str(Unknown)
        /\ \A i, j \in 1..Len(result.data) :
              i < j => ~KeyLess(KeyOrUnknown(result.data[j]),
                                KeyOrUnknown(result.data[i]))

\* C6: every field of a subtotal is the sum over the rows of its group of
\* the row's number for the field, a row without the field or with a
\* non-numeric value adding 0; the grand total is that sum over all rows;
\* and the call ends in an error only when the ITEM values cannot be
\* ordered, never because of a value that is summed.
C6_SubtotalIsSum ==
    /\ Done =>
        /\ \A j \in 1..Len(result.subtotals) :
              \A f \in DOMAIN result.subtotals[j].sub :
                 LET g == RowsOfGroup(result.subtotals[j].key)
                 IN  result.subtotals[j].sub[f]
                        = SumOfContributions(g, f, Len(g))
        /\ \A f \in DOMAIN result.grand_total :
              result.grand_total[f]
                 = SumOfContributions(result.data, f, Len(result.data))
    /\ pc = "error" =>
          \E i, j \in 1..Len(data_list) :
             Has(data_list[i], "ITEM") /\ IsInt(data_list[i]["ITEM"])
             /\ (Has(data_list[j], "ITEM") => IsStr(data_list[j]["ITEM"]))

\* a group of three rows: one with a number for GW, one without GW, one
\* with a str for GW; its GW subtotal is the one number
C6_Witness ==
    /\ Done
    /\ \E j \in 1..Len(result.subtotals) :
          LET g == RowsOfGroup(result.subtotals[j].key)
          IN  /\ Len(g) = 3
              /\ \E a, b, c \in 1..3 :
                    /\ Has(g[a], "GW") /\ IsNum(g[a]["GW"])
                    /\ ~Has(g[b], "GW")
                    /\ Has(g[c], "GW") /\ IsStr(g[c]["GW"])
                    /\ result.subtotals[j].sub["GW"] = g[a]["GW"]

\* the fields some row of the list carries
FieldsPresent(rows) ==
    {f \in SummedFields : \E i \in 1..Len(rows) : Has(rows[i], f)}

\* C7: a summed field is in a group's subtotal if and only if some row of
\* the group has the field, with any value; a field no row has is left
\* out, not emitted as 0.  The grand total follows the rule over all rows.
C7_FieldIffPresent ==
    Done =>
        /\ \A j \in 1..Len(result.subtotals) :
              DOMAIN result.subtotals[j].sub
                 = FieldsPresent(RowsOfGroup(result.subtotals[j].key))
        /\ DOMAIN result.grand_total = FieldsPresent(result.data)

\* one group has no GW at all and no GW subtotal, another has only a str
\* GW and a GW subtotal of 0
C7_Witness ==
    /\ Done
    /\ \E j, k \in 1..Len(result.subtotals) :
          /\ ~Has(result.subtotals[j].sub, "GW")
          /\ Has(result.subtotals[j].sub, "CTNS")
          /\ Has(result.subtotals[k].sub, "GW")
          /\ result.subtotals[k].sub["GW"] = Num(0)
          /\ \A i \in 1..Len(result.data) :
                GroupKey(result.data[i]) = result.subtotals[k].key
                => Has(result.data[i], "GW") /\ IsStr(result.data[i]["GW"])

\* the sum of field f over the first n subtotals that contain it
RECURSIVE SumOfSubtotals(_, _)
SumOfSubtotals(f, n) ==
    IF n = 0 THEN Num(0)
    ELSE IF Has(result.subtotals[n].sub, f)
         THEN Add(SumOfSubtotals(f, n - 1), result.subtotals[n].sub[f])
         ELSE SumOfSubtotals(f, n - 1)

GrandTotalFieldsAreSubtotalFields ==
    DOMAIN result.grand_total
        = UNION {DOMAIN result.subtotals[j].sub : j \in 1..Len(result.subtotals)}

\* C8 (as stated): the grand total contains a field exactly when some group
\* subtotal contains it, and its value equals the sum of the field over
\* those subtotals, for any input.
C8_GrandTotalIsSumOfSubtotals ==
    Done =>
        /\ GrandTotalFieldsAreSubtotalFields
        /\ \A f \in DOMAIN result.grand_total :
              result.grand_total[f] = SumOfSubtotals(f, Len(result.subtotals))

\* C8 (amended): the grand total contains a field exactly when some group
\* subtotal contains it; when the numbers summed for the field are all
\* ints its value equals the sum of the field over those subtotals.  (With
\* float values the two are float sums of the same numbers taken in
\* different orders, equal only up to rounding.)
C8_GrandTotalIsSumOfIntSubtotals ==
    Done =>
        /\ GrandTotalFieldsAreSubtotalFields
        /\ \A f \in DOMAIN result.grand_total :
              IsInt(result.grand_total[f])
              => result.grand_total[f] = SumOfSubtotals(f, Len(result.subtotals))

\* two groups with a CTNS subtotal each, a third without one, and a grand
\* total that exceeds either subtotal
C8_Witness ==
    /\ Done
    /\ Len(result.subtotals) = 3
    /\ \E j, k, l \in 1..3 :
          /\ j # k
          /\ Has(result.subtotals[j].sub, "CTNS")
          /\ Has(result.subtotals[k].sub, "CTNS")
          /\ ~Has(result.subtotals[l].sub, "CTNS")
          /\ IsInt(result.grand_total["CTNS"])
          /\ result.grand_total["CTNS"].n > result.subtotals[j].sub["CTNS"].n
          /\ result.grand_total["CTNS"].n > result.subtotals[k].sub["CTNS"].n

\* C9: sort_and_subtotal of the empty list is not an error; it returns no
\* data rows, no subtotals and one grand total without any field.
C9_EmptyInput ==
    (Len(data_list) = 0 /\ pc \in {"done", "error"}) =>
        /\ pc = "done"
        /\ result.data = <<>>
        /\ result.subtotals = <<>>
        /\ DOMAIN result.grand_total = {}

\* the call on the empty list has returned
C9_Witness ==
    /\ Done
    /\ data_list = <<>>
    /\ result.grand_total = EmptyRow

\* ---------------------------------------------------------------- layout
\* s ends with the suffix t
EndsWith(s, t) ==
    Len(s) >= Len(t) /\ SubSeq(s, Len(s) - Len(t) + 1, Len(s)) = t

IsGrandTotalRow(r) == Has(r, "ITEM") /\ r["ITEM"] = Str(GrandTotalLabel)

IsSubtotalRow(r) ==
    Has(r, "ITEM") /\ IsStr(r["ITEM"]) /\ EndsWith(r["ITEM"].s, SubtotalSuffix)

IsDataRow(r) == ~IsGrandTotalRow(r) /\ ~IsSubtotalRow(r)

SubtotalLabel(r) == Str(r["ITEM"].s \o SubtotalSuffix)

\* rep is one sequence of rows laid out as the claim says, over the data
\* rows src: groups in ascending key order, each group's data rows and then
\* its one subtotal row, and one grand-total row at the very end; the data
\* rows of rep are the rows of src, each as often as src has it
Layout(rep, src) ==
    /\ Len(rep) >= 1
    /\ \A p \in 1..Len(rep) : IsGrandTotalRow(rep[p]) <=> p = Len(rep)
    /\ \A p \in 1..Len(rep) : IsDataRow(rep[p]) =>
          /\ Has(rep[p], "ITEM")
          /\ p < Len(rep)
          /\ \/ rep[p + 1]["ITEM"] = SubtotalLabel(rep[p])
             \/ /\ IsDataRow(rep[p + 1])
                /\ rep[p + 1]["ITEM"] = rep[p]["ITEM"]
    /\ \A p \in 1..Len(rep) : IsSubtotalRow(rep[p]) =>
          /\ p > 1
          /\ IsDataRow(rep[p - 1])
          /\ rep[p]["ITEM"] = SubtotalLabel(rep[p - 1])
    /\ \A p, q \in 1..Len(rep) :
          (p < q /\ IsSubtotalRow(rep[p]) /\ IsSubtotalRow(rep[q]))
          => rep[p]["ITEM"] # rep[q]["ITEM"]
    /\ \A p, q \in 1..Len(rep) :
          (p < q /\ IsDataRow(rep[p]) /\ IsDataRow(rep[q]))
          => ~KeyLess(rep[q]["ITEM"], rep[p]["ITEM"])
    /\ \A i \in 1..Len(src) :
          Cardinality({p \in 1..Len(rep) : rep[p] = src[i]})
          = Cardinality({k \in 1..Len(src) : src[k] = src[i]})
    /\ Cardinality({p \in 1..Len(rep) : IsDataRow(rep[p])}) = Len(src)

\* the frame the offline script sorts: the given rows with their totals
FrameData == df_process_data(data_list)

C11_AggregateAlwaysReturns ==
    [][SortAndSubtotal => pc' = "done"]_vars

\* C12: every group is a contiguous run of the sorted data: between two rows
\* the grouping loop put under one key there is no row of another key, for
\* every input, rows without ITEM or with the empty ITEM included.
C12_GroupsContiguous ==
    Done =>
        \A i, j, k \in 1..Len(result.data) :
            (i < j /\ j < k
                /\ GroupKey(result.data[i]) = GroupKey(result.data[k]))
            => GroupKey(result.data[j]) = GroupKey(result.data[i])

\* --------------------------------------------------------- frame effects
DerivedFields == {"TOTAL", "TOTAL NW", "TOTAL GW"}

\* the fields of a row other than the three derived ones
OtherFields(row) == [f \in (DOMAIN row) \ DerivedFields |-> row[f]]

\* C13: process_data and sort_and_subtotal leave every field other than
\* TOTAL, TOTAL NW and TOTAL GW as it was: each row keeps exactly the other
\* fields it was given, with the values it was given, and every data row of
\* the report is a row of the list handed over, field for field.
C13_OtherFieldsUnchanged ==
    /\ Len(data_list) = Len(given)
    /\ \A i \in 1..Len(given) : OtherFields(data_list[i]) = OtherFields(given[i])
    /\ Done =>
          /\ Len(result.data) = Len(data_list)
          /\ \A p \in 1..Len(result.data) :
                \E i \in 1..Len(data_list) : result.data[p] = data_list[i]

\* a derived and sorted list: a row given with MODEL and ITEM but without
\* TOTAL carries all three in the report, and the report is reordered
C13_Witness ==
    /\ Done
    /\ passes >= 1
    /\ result.data # data_list
    /\ \E i \in 1..Len(given) : \E p \in 1..Len(result.data) :
          /\ Has(given[i], "MODEL") /\ Has(given[i], "ITEM")
          /\ ~Has(given[i], "TOTAL")
          /\ result.data[p] = data_list[i]
          /\ Has(result.data[p], "TOTAL")
          /\ result.data[p]["MODEL"] = given[i]["MODEL"]

\* --------------------------------------------------- permutation, partition
\* how often the row r stands in the list
Count(list, r) == Cardinality({i \in 1..Len(list) : list[i] = r})

\* the rows of the first n groups, one group after the other
RECURSIVE GroupRows(_, _)
GroupRows(its, n) ==
    IF n = 0 THEN <<>> ELSE GroupRows(its, n - 1) \o its[n].rows

\* C14: the data of the report is a permutation of the list handed over (no
\* row dropped, duplicated or invented), the list itself is not reordered,
\* and every row is put in exactly one group: the groups have different
\* keys and their sizes add up to the number of rows.
C14_PermutationAndPartition ==
    Done =>
        /\ Len(result.data) = Len(data_list)
        /\ \A i \in 1..Len(data_list) :
              Count(result.data, data_list[i]) = Count(data_list, data_list[i])
        /\ passes = 0 => data_list = given
        /\ \A j, k \in 1..Len(groups) : j # k => groups[j].key # groups[k].key
        /\ Len(GroupRows(groups, Len(groups))) = Len(data_list)
        /\ \A i \in 1..Len(data_list) :
              Count(GroupRows(groups, Len(groups)), data_list[i])
              = Count(data_list, data_list[i])

\* three rows, two of them the same row, given in an order the sort
\* changes, end up in two groups of two rows and one row
C14_Witness ==
    /\ Done
    /\ passes = 0
    /\ Len(data_list) = 3
    /\ data_list[1] = data_list[3]
    /\ data_list[1] # data_list[2]
    /\ result.data = <<data_list[2], data_list[1], data_list[3]>>
    /\ Len(groups) = 2
    /\ Len(groups[1].rows) = 1
    /\ Len(groups[2].rows) = 2

\* ------------------------------------------------------ sessions, accounts
ProtectedRoutes ==
    {"logout", "get_profile", "check_auth", "get_users",
     "update_profile", "update_user", "delete_user"}

\* the step answers a request to one of the routes wrapped by require_auth
\* (every step but Tick answers a request, and leaves the clock alone)
ProtectedRequest == now' = now /\ response'.route \in ProtectedRoutes

\* C15: the function wrapped by require_auth is called only when the token
\* of the request is the token of a stored session that has not expired;
\* a successful logout deletes the session of its token, and every later
\* request that carries the token is answered 401 without the wrapped
\* function being called.
C15_OnlyLiveSessionsReach ==
    [][ProtectedRequest =>
          /\ response'.reached =>
                \E x \in sessions : /\ x.session_token = response'.token
                                    /\ now <= x.expires_at
          /\ (response'.route = "logout" /\ response'.status = 200) =>
                \A x \in sessions' : x.session_token # response'.token
          /\ response'.token \in revoked =>
                response'.status = 401 /\ ~response'.reached]_vars

\* a request with the token of an earlier logout has been answered 401
\* while the user of that session is still stored
C15_Witness ==
    /\ response.token \in revoked
    /\ response.route = "check_auth"
    /\ response.status = 401
    /\ ~response.reached
    /\ users # {}

\* no two stored users share a username or an email
UniqueUsers ==
    \A u, v \in users :
        u.id # v.id => u.username # v.username /\ u.email # v.email

\* some stored user other than the user uid holds the email
HeldByOther(email, uid) == \E u \in users : u.email = email /\ u.id # uid

\* the user of the session the token belongs to
SessionUser(token) ==
    (CHOOSE x \in sessions : x.session_token = token).user_id

\* the step stores nothing and answers 400, or turns the request away
\* before (401 from require_auth, 403 from require_level, 500 for an
\* unknown user id)
RefusedUnchanged ==
    /\ users' = users
    /\ \/ response'.status \in {400, 403, 500} /\ response'.reached
       \/ response'.status = 401 /\ ~response'.reached

\* C16: register, init_admin, update_profile and update_user requests,
\* handled one at a time, never leave two stored users with one username
\* or one email; a request that would do so is answered 400 (unless it is
\* turned away before: 401, 403, or 500 for an unknown user id) and leaves
\* the stored users as they were.
C16_UniqueUsernameAndEmail ==
    /\ []UniqueUsers
    /\ [][/\ response'.route = "register" =>
                \A data \in RegisterBodies :
                   (/\ \/ \E u \in users : u.username = data["username"]
                       \/ \E u \in users : u.email = data["email"]
                    /\ Register(data))
                   => response'.status = 400 /\ users' = users
          /\ (response'.route = "init_admin" /\ users # {} /\ InitAdmin)
                => response'.status = 400 /\ users' = users
          /\ (now' = now /\ response'.route = "update_profile") =>
                \/ RefusedUnchanged
                \/ \A hdr \in Headers : \A data \in ProfileBodies :
                      UpdateProfile(hdr, data) =>
                         ~(/\ Has(data, "email")
                           /\ HeldByOther(data["email"],
                                          SessionUser(response'.token)))
          /\ (now' = now /\ response'.route = "update_user") =>
                \/ RefusedUnchanged
                \/ \A hdr \in Headers : \A user_id \in 1..MaxUserId :
                      \A data \in UserBodies :
                         UpdateUser(hdr, user_id, data) =>
                            ~(/\ Has(data, "email")
                              /\ HeldByOther(data["email"], user_id))]_vars

\* two users are stored and an update_user request that named the email of
\* the other user has been answered 400
C16_Witness ==
    /\ Cardinality(users) = 2
    /\ response.route = "update_user"
    /\ response.status = 400
    /\ response.reached

====
